---- MODULE Spec2Model ----
(***************************************************************************)
(* GameClient (src/game.js): the client's entity store, descriptor map,    *)
(* tracked entity, viewport, dirty flag, held keys and socket, driven by   *)
(* the browser's callbacks.  Every callback runs to completion, so each    *)
(* one is one action.                                                      *)
(*                                                                         *)
(* Units: viewportX and viewportY hold TWICE the value of this.viewportX   *)
(* and this.viewportY, because canvas.width / 2 is a half-integer for an   *)
(* odd canvas width.  Positions and canvas sizes are in pixels.            *)
(*                                                                         *)
(* The client accepts any message, key and window size at any time.  Each  *)
(* specification below (SpecSync, SpecView, SpecInput, SpecLoad,           *)
(* SpecSession) runs the same callbacks under the inputs of one concern;   *)
(* SpecSessionLive and SpecLoadLive add the fairness of the reconnect      *)
(* timer and of the render loop.                                           *)
(***************************************************************************)
EXTENDS Integers, Sequences, FiniteSets, Bags, TLC

VARIABLES
    ws,                       \* this.ws: "connecting" | "open" | "closed"
    connected,                \* this.connected
    reconnectTimer,           \* the setTimeout of ws.onclose is pending
    myPlayerId,               \* this.myPlayerId
    myPlayer,                 \* this.myPlayer (the object it refers to)
    myPlayerShared,           \* this.myPlayer === this.players.get(this.myPlayerId)
    players,                  \* this.players
    avatars,                  \* this.avatars
    avatarImages,             \* this.avatarImages
    imageLoads,               \* the Promise.all batches of loadAvatarImages in flight
    viewportX, viewportY,     \* 2 * this.viewportX, 2 * this.viewportY
    canvas,                   \* <<this.canvas.width, this.canvas.height>>
    needsRedraw,              \* this.needsRedraw
    pressedKeys,              \* this.pressedKeys
    isMoving,                 \* this.isMoving
    isRunning,                \* this.isRunning
    last,                     \* the callback that ran last, with its argument
    sent,                     \* what that callback handed to this.ws.send, in order
    threw,                    \* that callback ended in an uncaught exception
    rendered,                 \* that callback called this.render()
    pending                   \* store mutations, viewport recomputes and resizes
                              \* since the last render tick (counted up to MaxPending)

vars == <<ws, connected, reconnectTimer, myPlayerId,
          myPlayer, myPlayerShared, players, avatars, avatarImages, imageLoads,
          viewportX, viewportY, canvas, needsRedraw, pressedKeys, isMoving,
          isRunning, last, sent, threw, rendered, pending>>

(***************************************************************************)
(* Bounds and input sets                                                   *)
(***************************************************************************)
MaxPending == 3
MaxLoads == 2

worldWidth == 2048
worldHeight == 2048

Null == [null |-> TRUE]
NullId == "null"

ArrowKeys == {"ArrowUp", "ArrowDown", "ArrowLeft", "ArrowRight"}
ShiftKeys == {"ShiftLeft", "ShiftRight"}

(***************************************************************************)
(* Map: the operations of a JavaScript Map, as functions on a finite       *)
(* domain.                                                                 *)
(***************************************************************************)
EmptyMap == [k \in {} |-> Null]

MapHas(m, k) == k \in DOMAIN m

MapSet(m, k, v) == [x \in DOMAIN m \cup {k} |-> IF x = k THEN v ELSE m[x]]

\* a delete that drops some other entry when the key is absent
MapDelete_DropsAnother(m, k) ==
    IF k \in DOMAIN m \/ DOMAIN m = {}
    THEN [x \in DOMAIN m \ {k} |-> m[x]]
    ELSE [x \in DOMAIN m \ {CHOOSE y \in DOMAIN m : TRUE} |-> m[x]]

MapDelete(m, k) == [x \in DOMAIN m \ {k} |-> m[x]]

\* a field-level merge: an entry already present keeps its facing
MapSetEntries_KeepsFacing(m, obj) ==
    [x \in DOMAIN m \cup DOMAIN obj |->
        IF x \notin DOMAIN obj THEN m[x]
        ELSE IF x \in DOMAIN m /\ "facing" \in DOMAIN m[x]
             THEN [obj[x] EXCEPT !.facing = m[x].facing]
             ELSE obj[x]]

\* for (const [k, v] of Object.entries(obj)) map.set(k, v)
MapSetEntries(m, obj) ==
    [x \in DOMAIN m \cup DOMAIN obj |-> IF x \in DOMAIN obj THEN obj[x] ELSE m[x]]

\* the entries set without the clear() before them
ReplaceAll_NoClear(m, obj) == MapSetEntries(m, obj)

\* map.clear(); for (const [k, v] of Object.entries(obj)) map.set(k, v)
ReplaceAll(m, obj) == MapSetEntries(EmptyMap, obj)

\* obj[k] of a plain object: undefined when the key is absent
Lookup(obj, k) == IF k \in DOMAIN obj THEN obj[k] ELSE Null

Max(a, b) == IF a >= b THEN a ELSE b
Min(a, b) == IF a <= b THEN a ELSE b

(***************************************************************************)
(* Entity snapshots, appearance descriptors and inbound messages, as the   *)
(* server's JSON gives them.                                               *)
(***************************************************************************)
Snapshot(id, pos, f, a) ==
    [id |-> id, x |-> pos[1], y |-> pos[2], facing |-> f, avatar |-> a]

IdsOf(snapshots) == {p.id : p \in snapshots}

\* every non-empty object {id: snapshot, ...} over the snapshots, each under its id
PlayerObjects(snapshots) ==
    UNION {{o \in [ids -> snapshots] : \A k \in ids : o[k].id = k} :
              ids \in (SUBSET IdsOf(snapshots)) \ {{}}}

\* an appearance descriptor: its name and, per direction, the frame image urls
Descriptor(name, frames) == [name |-> name, frames |-> frames]

\* every object {name: descriptor}, and the empty one
AvatarObjects(descriptors) ==
    {[k \in {} |-> Null]} \cup {[n \in {d.name} |-> d] : d \in descriptors}

\* a join result names its own entity among the entities it carries
JoinResults(snapshots, descriptors) ==
    {m \in {[action |-> "join_game", success |-> TRUE, playerId |-> id,
             players |-> ps, avatars |-> av] :
                id \in IdsOf(snapshots), ps \in PlayerObjects(snapshots),
                av \in AvatarObjects(descriptors)} :
        m.playerId \in DOMAIN m.players}

\* a join result whose avatars member is missing
JoinResultsNoAvatars(snapshots) ==
    {m \in {[action |-> "join_game", success |-> TRUE, playerId |-> id,
             players |-> ps] :
                id \in IdsOf(snapshots), ps \in PlayerObjects(snapshots)} :
        m.playerId \in DOMAIN m.players}

JoinRejections == {[action |-> "join_game", success |-> FALSE, error |-> "full"]}

PlayersMoved(snapshots) ==
    {[action |-> "players_moved", players |-> ps] : ps \in PlayerObjects(snapshots)}

PlayerJoined(snapshots, descriptors) ==
    {[action |-> "player_joined", player |-> p, avatar |-> d] :
        p \in snapshots, d \in descriptors}

\* an entity-joined message that carries no descriptor
PlayerJoinedNoAvatar(snapshots) ==
    {[action |-> "player_joined", player |-> p] : p \in snapshots}

PlayerLeft(ids) == {[action |-> "player_left", playerId |-> id] : id \in ids}

OtherMessages == {[action |-> "ping"]}

(***************************************************************************)
(* Pure parts of the handlers                                              *)
(***************************************************************************)
\* imageKey = `${avatarName}_${direction}_${i}`; the names hold no "_", so the
\* string and the triple determine each other
ImageKey(avatarName, direction, i) == <<avatarName, direction, i>>

\* loadAvatarImages: the loads one call starts, one per frame whose key is not
\* in avatarImages yet (frames[i] is frames[i + 1] here: sequences start at 1)
LoadAvatarImages(avatarName, avatarData, images) ==
    LET frames == avatarData.frames
        slots == UNION {{<<d, i>> : i \in 1..Len(frames[d])} : d \in DOMAIN frames}
        fresh == {t \in slots : ~MapHas(images, ImageKey(avatarName, t[1], t[2] - 1))}
    IN  {[key |-> ImageKey(avatarName, t[1], t[2] - 1), src |-> frames[t[1]][t[2]]] :
            t \in fresh}

\* one Promise.all over the loads of one loadAvatarImages call
Batch(loads) == [loads |-> loads, rejected |-> FALSE]

\* the batches the calls of loadAvatarImages of one handler leave in flight; a
\* call that starts no load leaves none (its Promise.all resolves at once)
NewBatches(obj, images) ==
    LET started == {n \in DOMAIN obj : LoadAvatarImages(n, obj[n], images) # {}}
    IN  [b \in {Batch(LoadAvatarImages(n, obj[n], images)) : n \in started} |->
            Cardinality({n \in started :
                Batch(LoadAvatarImages(n, obj[n], images)) = b})]

InFlight(loads) == BagCardinality(loads)

\* the clamp with its two bounds applied in the other order
ClampAxis_UpperLast(pos, size, world) ==
    Min(Max(0, 2 * pos - size), 2 * (world - size))

\* updateViewport, one axis, in half pixels: position - size / 2, clamped
ClampAxis(pos, size, world) == Max(0, Min(2 * pos - size, 2 * (world - size)))

\* updateViewport: <<2 * viewportX, 2 * viewportY>> afterwards
UpdateViewport(player, cv, vx, vy) ==
    IF player = Null
    THEN <<vx, vy>>
    ELSE <<ClampAxis(player.x, cv[1], worldWidth),
           ClampAxis(player.y, cv[2], worldHeight)>>

\* the directions collected in the order left, right, up, down
GetMovementDirections_SidesFirst(keys) ==
    (IF "ArrowLeft" \in keys THEN <<"left">> ELSE <<>>) \o
    (IF "ArrowRight" \in keys THEN <<"right">> ELSE <<>>) \o
    (IF "ArrowUp" \in keys THEN <<"up">> ELSE <<>>) \o
    (IF "ArrowDown" \in keys THEN <<"down">> ELSE <<>>)

\* getMovementDirections
GetMovementDirections(keys) ==
    (IF "ArrowUp" \in keys THEN <<"up">> ELSE <<>>) \o
    (IF "ArrowDown" \in keys THEN <<"down">> ELSE <<>>) \o
    (IF "ArrowLeft" \in keys THEN <<"left">> ELSE <<>>) \o
    (IF "ArrowRight" \in keys THEN <<"right">> ELSE <<>>)

\* directionMap of updatePlayerFacing
DirectionMap(direction) ==
    CASE direction = "up" -> "north"
      [] direction = "down" -> "south"
      [] direction = "left" -> "west"
      [] direction = "right" -> "east"

\* a move that is sent without looking at the connection
SendMoveCommand_Unguarded(isConnected, direction) ==
    <<[action |-> "move", direction |-> direction]>>

\* sendMoveCommand, sendStopCommand, joinGame: what reaches ws.send
SendMoveCommand(isConnected, direction) ==
    IF ~isConnected THEN <<>> ELSE <<[action |-> "move", direction |-> direction]>>

\* a stop that is built and never handed to the socket
SendStopCommand_Never(isConnected) == <<>>

SendStopCommand(isConnected) ==
    IF ~isConnected THEN <<>> ELSE <<[action |-> "stop"]>>

\* a join that is never handed to the socket
JoinGame_Never(isConnected) == <<>>

JoinGame(isConnected) ==
    IF ~isConnected THEN <<>> ELSE <<[action |-> "join_game", username |-> "Tim"]>>

(***************************************************************************)
(* State after construction: init() has run resizeCanvas, started the      *)
(* connection and the render loop; nothing has been received.              *)
(***************************************************************************)
Init ==
    /\ ws = "connecting"
    /\ connected = FALSE
    /\ reconnectTimer = FALSE
    /\ myPlayerId = NullId
    /\ myPlayer = Null
    /\ myPlayerShared = FALSE
    /\ players = EmptyMap
    /\ avatars = EmptyMap
    /\ avatarImages = EmptyMap
    /\ imageLoads = EmptyBag
    /\ viewportX = 0
    /\ viewportY = 0
    /\ canvas = <<800, 600>>
    /\ needsRedraw = TRUE
    /\ pressedKeys = {}
    /\ isMoving = FALSE
    /\ isRunning = FALSE
    /\ last = [kind |-> "init"]
    /\ sent = <<>>
    /\ threw = FALSE
    /\ rendered = 0
    /\ pending = 1

\* what every callback leaves behind for the observer: itself, what it sent,
\* whether it threw, and whether it counted as a change for the next tick
Ran(ev, out, err, changed) ==
    /\ last' = ev
    /\ sent' = out
    /\ threw' = err
    /\ rendered' = 0
    /\ pending' = IF changed THEN Min(pending + 1, MaxPending) ELSE pending

(***************************************************************************)
(* Window and socket callbacks                                             *)
(***************************************************************************)
ResizeCanvas(size) ==
    LET vp == UpdateViewport(myPlayer, size, viewportX, viewportY)
    IN  /\ canvas' = size
        /\ viewportX' = vp[1]
        /\ viewportY' = vp[2]
        /\ needsRedraw' = TRUE
        /\ Ran([kind |-> "resize", size |-> size], <<>>, FALSE, TRUE)
        /\ UNCHANGED <<ws, connected, reconnectTimer, myPlayerId, myPlayer,
                       myPlayerShared, players, avatars, avatarImages, imageLoads,
                       pressedKeys, isMoving, isRunning>>

OnOpen ==
    /\ ws = "connecting"
    /\ ws' = "open"
    /\ connected' = TRUE
    /\ Ran([kind |-> "open"], JoinGame(TRUE), FALSE, FALSE)
    /\ UNCHANGED <<reconnectTimer, myPlayerId, myPlayer, myPlayerShared, players,
                   avatars, avatarImages, imageLoads, viewportX, viewportY, canvas,
                   needsRedraw, pressedKeys, isMoving, isRunning>>

OnClose ==
    /\ ws \in {"connecting", "open"}
    /\ ws' = "closed"
    /\ connected' = FALSE
    /\ reconnectTimer' = TRUE
    /\ Ran([kind |-> "close"], <<>>, FALSE, FALSE)
    /\ UNCHANGED <<myPlayerId, myPlayer, myPlayerShared, players, avatars,
                   avatarImages, imageLoads, viewportX, viewportY, canvas,
                   needsRedraw, pressedKeys, isMoving, isRunning>>

\* the timer of ws.onclose fires: connectToServer
Reconnect ==
    /\ reconnectTimer
    /\ reconnectTimer' = FALSE
    /\ ws' = "connecting"
    /\ Ran([kind |-> "reconnect"], <<>>, FALSE, FALSE)
    /\ UNCHANGED <<connected, myPlayerId, myPlayer, myPlayerShared, players,
                   avatars, avatarImages, imageLoads, viewportX, viewportY, canvas,
                   needsRedraw, pressedKeys, isMoving, isRunning>>

(***************************************************************************)
(* Keyboard callbacks                                                      *)
(***************************************************************************)
\* updateMovement, run on the held keys `keys` by the key callback `ev`
UpdateMovement(ev, keys) ==
    LET directions == GetMovementDirections(keys)
    IN  /\ pressedKeys' = keys
        /\ IF Len(directions) > 0
           THEN LET facing == DirectionMap(directions[1])
                    \* updatePlayerFacing writes the object this.myPlayer refers to
                    mine == IF myPlayer = Null THEN Null
                            ELSE [myPlayer EXCEPT !.facing = facing]
                    vp == UpdateViewport(mine, canvas, viewportX, viewportY)
                IN  /\ isMoving' = TRUE
                    /\ myPlayer' = mine
                    /\ players' = IF myPlayerShared
                                  THEN [players EXCEPT ![myPlayerId] = mine]
                                  ELSE players
                    /\ needsRedraw' = IF myPlayer = Null THEN needsRedraw ELSE TRUE
                    /\ viewportX' = vp[1]
                    /\ viewportY' = vp[2]
                    /\ Ran(ev, SendMoveCommand(connected, directions[1]), FALSE,
                           myPlayer # Null)
           ELSE /\ isMoving' = FALSE
                /\ Ran(ev, SendStopCommand(connected), FALSE, FALSE)
                /\ UNCHANGED <<myPlayer, players, needsRedraw, viewportX, viewportY>>
        /\ UNCHANGED <<ws, connected, reconnectTimer, myPlayerId, myPlayerShared,
                       avatars, avatarImages, imageLoads, canvas, isRunning>>

HandleKeyDown(code) ==
    LET ev == [kind |-> "keydown", code |-> code]
    IN  IF code \in ShiftKeys
        THEN \* toggleSpeed
             /\ isRunning' = ~isRunning
             /\ Ran(ev, <<>>, FALSE, FALSE)
             /\ UNCHANGED <<ws, connected, reconnectTimer, myPlayerId, myPlayer,
                            myPlayerShared, players, avatars, avatarImages,
                            imageLoads, viewportX, viewportY, canvas, needsRedraw,
                            pressedKeys, isMoving>>
        ELSE IF code \in pressedKeys
        THEN /\ Ran(ev, <<>>, FALSE, FALSE)
             /\ UNCHANGED <<ws, connected, reconnectTimer, myPlayerId, myPlayer,
                            myPlayerShared, players, avatars, avatarImages,
                            imageLoads, viewportX, viewportY, canvas, needsRedraw,
                            pressedKeys, isMoving, isRunning>>
        ELSE UpdateMovement(ev, pressedKeys \cup {code})

HandleKeyUp(code) ==
    UpdateMovement([kind |-> "keyup", code |-> code], pressedKeys \ {code})

(***************************************************************************)
(* ws.onmessage: handleMessage and its four handlers.  A handler that      *)
(* throws stops where it throws; what it wrote before stays written.       *)
(***************************************************************************)
\* a handler that answers a rejection with another join
HandleJoinGame_RetryOnReject(data) ==
    LET ev == [kind |-> "message", data |-> data]
    IN  IF data.success
        THEN LET mine == Lookup(data.players, data.playerId)
                 complete == "avatars" \in DOMAIN data
                 batches == IF complete THEN NewBatches(data.avatars, avatarImages)
                            ELSE EmptyBag
                 vp == UpdateViewport(mine, canvas, viewportX, viewportY)
             IN  /\ InFlight(imageLoads (+) batches) <= MaxLoads
                 /\ myPlayerId' = data.playerId
                 /\ myPlayer' = mine
                 /\ myPlayerShared' = (mine # Null)
                 /\ players' = ReplaceAll(players, data.players)
                 /\ IF complete
                    THEN /\ avatars' = ReplaceAll(avatars, data.avatars)
                         /\ imageLoads' = imageLoads (+) batches
                         /\ viewportX' = vp[1]
                         /\ viewportY' = vp[2]
                         /\ needsRedraw' = TRUE
                    ELSE \* Object.entries(undefined) throws after avatars.clear()
                         /\ avatars' = EmptyMap
                         /\ UNCHANGED <<imageLoads, viewportX, viewportY, needsRedraw>>
                 /\ Ran(ev, <<>>, ~complete, TRUE)
                 /\ UNCHANGED <<ws, connected, reconnectTimer, avatarImages, canvas,
                                pressedKeys, isMoving, isRunning>>
        ELSE /\ Ran(ev, JoinGame(connected), FALSE, FALSE)
             /\ UNCHANGED <<ws, connected, reconnectTimer, myPlayerId, myPlayer,
                            myPlayerShared, players, avatars, avatarImages,
                            imageLoads, viewportX, viewportY, canvas, needsRedraw,
                            pressedKeys, isMoving, isRunning>>

HandleJoinGame(data) ==
    LET ev == [kind |-> "message", data |-> data]
    IN  IF data.success
        THEN LET mine == Lookup(data.players, data.playerId)
                 complete == "avatars" \in DOMAIN data
                 batches == IF complete THEN NewBatches(data.avatars, avatarImages)
                            ELSE EmptyBag
                 vp == UpdateViewport(mine, canvas, viewportX, viewportY)
             IN  /\ InFlight(imageLoads (+) batches) <= MaxLoads
                 /\ myPlayerId' = data.playerId
                 /\ myPlayer' = mine
                 /\ myPlayerShared' = (mine # Null)
                 /\ players' = ReplaceAll(players, data.players)
                 /\ IF complete
                    THEN /\ avatars' = ReplaceAll(avatars, data.avatars)
                         /\ imageLoads' = imageLoads (+) batches
                         /\ viewportX' = vp[1]
                         /\ viewportY' = vp[2]
                         /\ needsRedraw' = TRUE
                    ELSE \* Object.entries(undefined) throws after avatars.clear()
                         /\ avatars' = EmptyMap
                         /\ UNCHANGED <<imageLoads, viewportX, viewportY, needsRedraw>>
                 /\ Ran(ev, <<>>, ~complete, TRUE)
                 /\ UNCHANGED <<ws, connected, reconnectTimer, avatarImages, canvas,
                                pressedKeys, isMoving, isRunning>>
        ELSE /\ Ran(ev, <<>>, FALSE, FALSE)
             /\ UNCHANGED <<ws, connected, reconnectTimer, myPlayerId, myPlayer,
                            myPlayerShared, players, avatars, avatarImages,
                            imageLoads, viewportX, viewportY, canvas, needsRedraw,
                            pressedKeys, isMoving, isRunning>>

HandlePlayersMoved(data) ==
    /\ players' = MapSetEntries(players, data.players)
    /\ myPlayerShared' = (myPlayerShared /\ myPlayerId \notin DOMAIN data.players)
    /\ needsRedraw' = TRUE
    /\ Ran([kind |-> "message", data |-> data], <<>>, FALSE, TRUE)
    /\ UNCHANGED <<ws, connected, reconnectTimer, myPlayerId, myPlayer, avatars,
                   avatarImages, imageLoads, viewportX, viewportY, canvas,
                   pressedKeys, isMoving, isRunning>>

HandlePlayerJoined(data) ==
    LET ev == [kind |-> "message", data |-> data]
        described == "avatar" \in DOMAIN data
        batches == IF described
                   THEN NewBatches([n \in {data.avatar.name} |-> data.avatar],
                                   avatarImages)
                   ELSE EmptyBag
    IN  /\ InFlight(imageLoads (+) batches) <= MaxLoads
        /\ players' = MapSet(players, data.player.id, data.player)
        /\ myPlayerShared' = (myPlayerShared /\ myPlayerId # data.player.id)
        /\ IF described
           THEN /\ avatars' = MapSet(avatars, data.avatar.name, data.avatar)
                /\ imageLoads' = imageLoads (+) batches
                /\ needsRedraw' = TRUE
           ELSE \* data.avatar.name throws: data.avatar is undefined
                UNCHANGED <<avatars, imageLoads, needsRedraw>>
        /\ Ran(ev, <<>>, ~described, TRUE)
        /\ UNCHANGED <<ws, connected, reconnectTimer, myPlayerId, myPlayer,
                       avatarImages, viewportX, viewportY, canvas, pressedKeys,
                       isMoving, isRunning>>

HandlePlayerLeft(data) ==
    /\ players' = MapDelete(players, data.playerId)
    /\ myPlayerShared' = (myPlayerShared /\ myPlayerId # data.playerId)
    /\ needsRedraw' = TRUE
    /\ Ran([kind |-> "message", data |-> data], <<>>, FALSE,
           MapHas(players, data.playerId))
    /\ UNCHANGED <<ws, connected, reconnectTimer, myPlayerId, myPlayer, avatars,
                   avatarImages, imageLoads, viewportX, viewportY, canvas,
                   pressedKeys, isMoving, isRunning>>

\* the default branch of handleMessage
HandleUnknown(data) ==
    /\ Ran([kind |-> "message", data |-> data], <<>>, FALSE, FALSE)
    /\ UNCHANGED <<ws, connected, reconnectTimer, myPlayerId, myPlayer,
                   myPlayerShared, players, avatars, avatarImages, imageLoads,
                   viewportX, viewportY, canvas, needsRedraw, pressedKeys,
                   isMoving, isRunning>>

\* ws.onmessage; messages arrive on an open socket only
HandleMessage(data) ==
    /\ ws = "open"
    /\ CASE data.action = "join_game" -> HandleJoinGame(data)
         [] data.action = "players_moved" -> HandlePlayersMoved(data)
         [] data.action = "player_joined" -> HandlePlayerJoined(data)
         [] data.action = "player_left" -> HandlePlayerLeft(data)
         [] OTHER -> HandleUnknown(data)

(***************************************************************************)
(* Image loads of loadAvatarImages completing, and the render tick         *)
(***************************************************************************)
\* the batch `b` with the load `l` settled
Settled(b, l, failed) ==
    LET rest == [loads |-> b.loads \ {l}, rejected |-> b.rejected \/ failed]
    IN  (imageLoads (-) SetToBag({b})) (+)
        (IF rest.loads = {} THEN EmptyBag ELSE SetToBag({rest}))

\* img.onload: the load's then() stores the image; the batch's Promise.all
\* resolves, and sets needsRedraw, when this was its last load and none failed
ImageLoaded(b, l) ==
    /\ BagIn(b, imageLoads)
    /\ l \in b.loads
    /\ avatarImages' = MapSet(avatarImages, l.key, l.src)
    /\ imageLoads' = Settled(b, l, FALSE)
    /\ needsRedraw' = IF b.loads = {l} /\ ~b.rejected THEN TRUE ELSE needsRedraw
    /\ Ran([kind |-> "image", key |-> l.key, src |-> l.src], <<>>, FALSE, FALSE)
    /\ UNCHANGED <<ws, connected, reconnectTimer, myPlayerId, myPlayer,
                   myPlayerShared, players, avatars, viewportX, viewportY, canvas,
                   pressedKeys, isMoving, isRunning>>

\* img.onerror: the load rejects, and so does its batch's Promise.all
ImageFailed(b, l) ==
    /\ BagIn(b, imageLoads)
    /\ l \in b.loads
    /\ imageLoads' = Settled(b, l, TRUE)
    /\ Ran([kind |-> "imageerror", key |-> l.key, src |-> l.src], <<>>, FALSE, FALSE)
    /\ UNCHANGED <<ws, connected, reconnectTimer, myPlayerId, myPlayer,
                   myPlayerShared, players, avatars, avatarImages, viewportX,
                   viewportY, canvas, needsRedraw, pressedKeys, isMoving, isRunning>>

\* the requestAnimationFrame callback of startRenderLoop
RenderTick ==
    /\ needsRedraw' = FALSE
    /\ last' = [kind |-> "tick", changes |-> pending, dirty |-> needsRedraw]
    /\ sent' = <<>>
    /\ threw' = FALSE
    /\ rendered' = IF needsRedraw THEN 1 ELSE 0
    /\ pending' = 0
    /\ UNCHANGED <<ws, connected, reconnectTimer, myPlayerId, myPlayer,
                   myPlayerShared, players, avatars, avatarImages, imageLoads,
                   viewportX, viewportY, canvas, pressedKeys, isMoving, isRunning>>

(***************************************************************************)
(* render(): what drawPlayers hands to the canvas for each entity, from    *)
(* the state the tick finds.  Screen positions are in half pixels, as the  *)
(* viewport is.                                                            *)
(***************************************************************************)
avatarSize == 32

\* the visibility check of drawPlayer: the entity lies outside the canvas
\* widened by avatarSize on every side
Culled(player) ==
    LET sx == 2 * player.x - viewportX
        sy == 2 * player.y - viewportY
    IN  \/ sx < -(2 * avatarSize)
        \/ sx > 2 * (canvas[1] + avatarSize)
        \/ sy < -(2 * avatarSize)
        \/ sy > 2 * (canvas[2] + avatarSize)

\* drawAvatar: the sprite is drawn when the descriptor is known and the image
\* of (kind, facing, animationFrame || 0) is loaded; no snapshot carries an
\* animationFrame
DrawAvatar(player) ==
    IF ~MapHas(avatars, player.avatar) THEN {}
    ELSE IF ~MapHas(avatarImages, ImageKey(player.avatar, player.facing, 0)) THEN {}
    ELSE {"sprite"}

\* drawPlayer: the glow of the tracked id, the sprite, the name label
DrawPlayer(player) ==
    IF Culled(player) THEN {}
    ELSE (IF player.id = myPlayerId THEN {"glow"} ELSE {})
         \cup DrawAvatar(player)
         \cup {"label"}

\* drawPlayers
DrawPlayers == [id \in DOMAIN players |-> DrawPlayer(players[id])]

(***************************************************************************)
(* SpecSync: the store under the server's messages, with one arrow key     *)
(* predicting a facing and the render tick clearing the dirty flag.        *)
(***************************************************************************)
\* descriptors without frame images: loadAvatarImages starts no load for them
FoxNoFrames == Descriptor("fox", [d \in {} |-> <<>>])

\* two snapshots per entity, differing in every field but id and avatar
SyncSnapshots ==
    {Snapshot(id, <<0, 0>>, "south", "fox") : id \in {"p1", "p2"}}
    \cup {Snapshot(id, <<1024, 1024>>, "east", "fox") : id \in {"p1", "p2"}}

SyncMessages ==
    JoinResults(SyncSnapshots, {FoxNoFrames})
    \cup JoinResultsNoAvatars(SyncSnapshots)
    \cup PlayersMoved(SyncSnapshots)
    \cup PlayerJoined(SyncSnapshots, {FoxNoFrames})
    \cup PlayerJoinedNoAvatar(SyncSnapshots)
    \cup PlayerLeft({"p1", "p2"})

NextSync ==
    \/ OnOpen
    \/ OnClose
    \/ Reconnect
    \/ \E data \in SyncMessages : HandleMessage(data)
    \/ \E code \in {"ArrowUp"} : HandleKeyDown(code)
    \/ \E code \in {"ArrowUp"} : HandleKeyUp(code)
    \/ RenderTick

SpecSync == Init /\ [][NextSync]_vars

(***************************************************************************)
(* SpecView: the viewport under joins, bulk moves and removals of          *)
(* well-formed messages, resizes (one output wider than the world, one     *)
(* taller, both odd on one axis), one arrow key and the render tick.       *)
(***************************************************************************)
ViewSnapshots ==
    {Snapshot("p1", pos, "south", "fox") :
        pos \in {<<0, 0>>, <<1024, 1024>>, <<2048, 2048>>}}
    \cup {Snapshot("p2", <<1024, 1024>>, "east", "fox")}

ViewMessages ==
    JoinResults(ViewSnapshots, {})
    \cup PlayersMoved(ViewSnapshots)
    \cup PlayerLeft({"p1", "p2"})

ViewSizes == {<<800, 600>>, <<2500, 601>>, <<1001, 2500>>}

NextView ==
    \/ OnOpen
    \/ \E data \in ViewMessages : HandleMessage(data)
    \/ \E size \in ViewSizes : ResizeCanvas(size)
    \/ \E code \in {"ArrowUp"} : HandleKeyDown(code)
    \/ \E code \in {"ArrowUp"} : HandleKeyUp(code)
    \/ RenderTick

SpecView == Init /\ [][NextView]_vars

(***************************************************************************)
(* SpecInput: the keyboard (the four arrows, one other key, the modifier)  *)
(* on a socket that opens, closes and reconnects, with one entity joined   *)
(* and moved by the server, and the render tick.                           *)
(***************************************************************************)
InputMessages ==
    JoinResults({Snapshot("p1", <<0, 0>>, "south", "fox")}, {})
    \cup PlayersMoved({Snapshot("p1", <<1024, 1024>>, "east", "fox")})

InputKeys == ArrowKeys \cup {"KeyA", "ShiftLeft"}

NextInput ==
    \/ OnOpen
    \/ OnClose
    \/ Reconnect
    \/ \E data \in InputMessages : HandleMessage(data)
    \/ \E code \in InputKeys : HandleKeyDown(code)
    \/ \E code \in InputKeys : HandleKeyUp(code)
    \/ RenderTick

SpecInput == Init /\ [][NextInput]_vars

(***************************************************************************)
(* SpecLoad: the sprite images of two descriptors of one kind, loading and *)
(* failing while joins and entity-joined messages start further loads.     *)
(***************************************************************************)
FoxA == Descriptor("fox", [d \in {"south"} |-> <<"fox_a.png">>])
FoxB == Descriptor("fox", [d \in {"south", "east"} |-> <<"fox_b.png">>])

LoadMessages ==
    JoinResults({Snapshot("p1", <<0, 0>>, "south", "fox")}, {FoxA, FoxB})
    \cup PlayerJoined({Snapshot("p2", <<1024, 1024>>, "east", "fox")}, {FoxA, FoxB})

NextLoad ==
    \/ OnOpen
    \/ \E data \in LoadMessages : HandleMessage(data)
    \/ \E b \in BagToSet(imageLoads) : \E l \in b.loads : ImageLoaded(b, l)
    \/ \E b \in BagToSet(imageLoads) : \E l \in b.loads : ImageFailed(b, l)
    \/ RenderTick

SpecLoad == Init /\ [][NextLoad]_vars

\* the render loop keeps running: requestAnimationFrame calls render back for
\* every frame.  An image may load, fail, or never settle.
SpecLoadLive == Init /\ [][NextLoad]_vars /\ WF_vars(RenderTick)

(***************************************************************************)
(* SpecSession: one session after another on a socket that opens, closes   *)
(* and reconnects, with the join accepted or rejected, two arrow keys and  *)
(* the render tick.  SpecSessionLive adds that the timer of ws.onclose     *)
(* fires: setTimeout runs its callback once its delay has passed.          *)
(***************************************************************************)
SessionMessages ==
    JoinResults({Snapshot("p1", <<0, 0>>, "south", "fox")}, {})
    \cup JoinRejections
    \cup PlayersMoved({Snapshot("p1", <<1024, 1024>>, "east", "fox")})

SessionKeys == {"ArrowUp", "ArrowLeft"}

NextSession ==
    \/ OnOpen
    \/ OnClose
    \/ Reconnect
    \/ \E data \in SessionMessages : HandleMessage(data)
    \/ \E code \in SessionKeys : HandleKeyDown(code)
    \/ \E code \in SessionKeys : HandleKeyUp(code)
    \/ RenderTick

SpecSession == Init /\ [][NextSession]_vars

SpecSessionLive == Init /\ [][NextSession]_vars /\ WF_vars(Reconnect)

IsMessage(ev, action) == ev.kind = "message" /\ ev.data.action = action

\* C1: handling players_moved leaves, under every id the message names, the
\* incoming snapshot as a whole (inserting the ids absent before), and leaves
\* every id the message does not name with the snapshot it had.
C1_BulkMoveFrame ==
    [][IsMessage(last', "players_moved") =>
        LET incoming == last'.data.players
        IN  /\ DOMAIN players' = DOMAIN players \cup DOMAIN incoming
            /\ \A id \in DOMAIN incoming : players'[id] = incoming[id]
            /\ \A id \in DOMAIN players \ DOMAIN incoming : players'[id] = players[id]
      ]_vars

\* players_moved for p1 alone has replaced the tracked p1, whose facing had been
\* predicted north locally, while p2 stays in the store
C1_Witness ==
    /\ IsMessage(last, "players_moved")
    /\ DOMAIN last.data.players = {"p1"}
    /\ DOMAIN players = {"p1", "p2"}
    /\ myPlayerId = "p1"
    /\ myPlayer # Null
    /\ myPlayer.facing = "north"
    /\ players["p1"].facing # "north"

\* C2: after a join result with success true that carries its entities and its
\* descriptors, the store holds exactly the message's entities, the descriptor map
\* exactly the message's descriptors, the tracked id is the message's playerId
\* and the dirty flag is set.
C2_JoinReplacesAll ==
    (IsMessage(last, "join_game") /\ last.data.success /\ "avatars" \in DOMAIN last.data)
    => /\ DOMAIN players = DOMAIN last.data.players
       /\ \A id \in DOMAIN players : players[id] = last.data.players[id]
       /\ DOMAIN avatars = DOMAIN last.data.avatars
       /\ \A n \in DOMAIN avatars : avatars[n] = last.data.avatars[n]
       /\ myPlayerId = last.data.playerId
       /\ needsRedraw

\* a join result naming p1 alone and no descriptor has been handled on a store
\* that had been changed before, since the last tick
C2_Witness ==
    /\ IsMessage(last, "join_game")
    /\ last.data.success
    /\ "avatars" \in DOMAIN last.data
    /\ DOMAIN last.data.players = {"p1"}
    /\ DOMAIN last.data.avatars = {}
    /\ DOMAIN players = {"p1"}
    /\ pending = MaxPending

\* C3: handling player_left raises nothing, leaves the id absent and every other
\* entry as it was; for an id that is absent already (a second removal, or an id
\* never stored) the store stays as it is.
C3_RemoveIdempotent ==
    [][IsMessage(last', "player_left") =>
        LET id == last'.data.playerId
        IN  /\ ~threw'
            /\ DOMAIN players' = DOMAIN players \ {id}
            /\ \A k \in DOMAIN players' : players'[k] = players[k]
            /\ (id \notin DOMAIN players => players' = players)
      ]_vars

\* player_left has been handled for an id that was absent (it did not count as a
\* change after the tick) while the store holds another entity
C3_Witness ==
    /\ IsMessage(last, "player_left")
    /\ pending = 0
    /\ last.data.playerId \notin DOMAIN players
    /\ DOMAIN players # {}

\* position - size / 2 clamped to [0, world - size], and 0 when the world is
\* smaller than the output; in half pixels
CentredClamped(pos, size, world) ==
    IF world < size THEN 0
    ELSE IF 2 * pos - size < 0 THEN 0
    ELSE IF 2 * pos - size > 2 * (world - size) THEN 2 * (world - size)
    ELSE 2 * pos - size

\* the viewports of an 800 x 600 output in the 2048 x 2048 world, by position
Examples ==
    [pos \in {<<0, 0>>, <<1024, 1024>>, <<2048, 2048>>} |->
        IF pos = <<0, 0>> THEN <<0, 0>>
        ELSE IF pos = <<1024, 1024>> THEN <<624, 724>>
        ELSE <<1248, 1448>>]

\* C4: in every state each axis of the viewport lies in [0, max(0, world -
\* output)]; and after a join, a resize or a key callback, with a tracked entity
\* object, each axis is that object's position minus half the output, clamped to
\* [0, world - output], and 0 when the world is smaller than the output (800 x
\* 600: (0,0) -> (0,0), (1024,1024) -> (624,724), (2048,2048) -> (1248,1448)).
C4_ViewportClamp ==
    /\ 0 <= viewportX /\ viewportX <= 2 * Max(0, worldWidth - canvas[1])
    /\ 0 <= viewportY /\ viewportY <= 2 * Max(0, worldHeight - canvas[2])
    /\ ((\/ last.kind \in {"resize", "keydown", "keyup"}
         \/ (IsMessage(last, "join_game") /\ last.data.success))
        /\ myPlayer # Null)
       => /\ viewportX = CentredClamped(myPlayer.x, canvas[1], worldWidth)
          /\ viewportY = CentredClamped(myPlayer.y, canvas[2], worldHeight)
          /\ (canvas = <<800, 600>> /\ <<myPlayer.x, myPlayer.y>> \in DOMAIN Examples)
             => /\ viewportX = 2 * Examples[<<myPlayer.x, myPlayer.y>>][1]
                /\ viewportY = 2 * Examples[<<myPlayer.x, myPlayer.y>>][2]

\* the tracked entity is at (2048, 2048) and the output has been resized to
\* 2500 x 601: x collapses to 0 (the world is narrower than the output) and y is
\* at its upper clamp 2048 - 601
C4_Witness ==
    /\ last.kind = "resize"
    /\ canvas = <<2500, 601>>
    /\ myPlayer # Null
    /\ myPlayer.x = 2048
    /\ viewportX = 0
    /\ viewportY = 2 * 1447

\* C5: once players_moved has brought a new snapshot for the tracked id, the
\* viewport is the clamped centring on the position the store now holds for that
\* id, and the camera target is that snapshot.
C5_CameraFollowsBulkMove ==
    (IsMessage(last, "players_moved") /\ myPlayerId \in DOMAIN last.data.players)
    => /\ viewportX = CentredClamped(players[myPlayerId].x, canvas[1], worldWidth)
       /\ viewportY = CentredClamped(players[myPlayerId].y, canvas[2], worldHeight)
       /\ myPlayer = players[myPlayerId]

\* the first held direction in the order up, down, left, right, or stop
FirstHeld(keys) ==
    IF "ArrowUp" \in keys THEN "up"
    ELSE IF "ArrowDown" \in keys THEN "down"
    ELSE IF "ArrowLeft" \in keys THEN "left"
    ELSE IF "ArrowRight" \in keys THEN "right"
    ELSE "stop"

FacingOf(direction) ==
    IF direction = "up" THEN "north"
    ELSE IF direction = "down" THEN "south"
    ELSE IF direction = "left" THEN "west"
    ELSE "east"

\* the step is a key callback that reached updateMovement: any keyup, and a
\* keydown of a key that is neither the modifier nor held already
RanUpdateMovement ==
    \/ last'.kind = "keyup"
    \/ last'.kind = "keydown" /\ last'.code \notin ShiftKeys /\ last'.code \notin pressedKeys

Move(direction) == [action |-> "move", direction |-> direction]
Stop == [action |-> "stop"]

C7_EveryChangeEmitsOne ==
    [][/\ pressedKeys' # pressedKeys => Len(sent') = 1
       /\ (last'.kind = "keydown" /\ last'.code \in pressedKeys) => sent' = <<>>
       /\ (last'.kind = "keyup" /\ FirstHeld(pressedKeys) # "stop"
              /\ FirstHeld(pressedKeys') = "stop") => sent' = <<Stop>>
      ]_vars

\* C7 as amended: while the connection is established, every key press or
\* release that changes the held set hands exactly one message to the socket
\* (move with the reduced direction, or stop), a repeated keydown none, and the
\* release of the last held direction exactly one stop; while it is not
\* established a key callback hands the socket nothing.
C7_ChangeEmitsOneWhenConnected ==
    [][/\ (connected /\ pressedKeys' # pressedKeys)
            => /\ Len(sent') = 1
               /\ sent'[1] = IF FirstHeld(pressedKeys') = "stop" THEN Stop
                             ELSE Move(FirstHeld(pressedKeys'))
       /\ (last'.kind = "keydown" /\ last'.code \in pressedKeys) => sent' = <<>>
       /\ (connected /\ last'.kind = "keyup" /\ FirstHeld(pressedKeys) # "stop"
              /\ FirstHeld(pressedKeys') = "stop") => sent' = <<Stop>>
       /\ (~connected /\ last'.kind \in {"keydown", "keyup"}) => sent' = <<>>
      ]_vars

\* the last held key has been released on an established connection: one stop
C7_Witness ==
    /\ last.kind = "keyup"
    /\ last.code \in ArrowKeys
    /\ pressedKeys = {}
    /\ connected
    /\ sent = <<Stop>>

\* C8: every non-stop intent, taken while the tracked id is in the store, sets
\* the facing of the store's snapshot for that id to the mapped value and sets
\* the dirty flag.
C8_PredictedFacingInStore ==
    [][(RanUpdateMovement /\ FirstHeld(pressedKeys') # "stop"
            /\ myPlayerId \in DOMAIN players)
        => /\ myPlayerId \in DOMAIN players'
           /\ players'[myPlayerId].facing = FacingOf(FirstHeld(pressedKeys'))
           /\ needsRedraw'
      ]_vars

\* C9: a tick after one or more store mutations, viewport recomputes or resizes
\* draws exactly once, and a tick that finds the flag clear draws nothing.
C9_DirtyBatching ==
    last.kind = "tick"
    => /\ (last.changes >= 1 => rendered = 1)
       /\ (~last.dirty => rendered = 0)

\* C10: a message whose handling throws leaves the entity store, the descriptor
\* map, the tracked id and the tracked entity as they were.
C10_AtomicMessages ==
    [][threw' => /\ players' = players
                 /\ avatars' = avatars
                 /\ myPlayerId' = myPlayerId
                 /\ myPlayer' = myPlayer
      ]_vars

Join == [action |-> "join_game", username |-> "Tim"]

\* C11: a callback that ends with the connection not established hands the
\* socket nothing; and nothing is queued: the callback that opens a connection
\* hands it the join and no move or stop, the reconnect hands it nothing, and a
\* key callback at most the one message of its own event (the reduction of the
\* keys held at that callback).
C11_DroppedNotQueued ==
    [][/\ ~connected' => sent' = <<>>
       /\ last'.kind = "open" => sent' = <<Join>>
       /\ last'.kind \in {"keydown", "keyup"}
            => /\ Len(sent') <= 1
               /\ \A i \in DOMAIN sent' :
                      sent'[i] = IF FirstHeld(pressedKeys') = "stop" THEN Stop
                                 ELSE Move(FirstHeld(pressedKeys'))
       /\ last'.kind \notin {"open", "keydown", "keyup"} => sent' = <<>>
      ]_vars

\* after a session in which p1 was joined the socket has closed, and ArrowUp
\* has been pressed during the outage: the move is dropped
C11_Witness ==
    /\ last = [kind |-> "keydown", code |-> "ArrowUp"]
    /\ ws = "closed"
    /\ ~connected
    /\ myPlayer # Null
    /\ isMoving
    /\ sent = <<>>

\* C12: handling a join result with success false leaves the entity store, the
\* descriptor map, the tracked id, the tracked entity, the viewport and the
\* dirty flag as they were and sends nothing; and a join is sent by no callback
\* but the one that opens a connection, so none follows on that connection.
C12_RejectionInert ==
    [][/\ (IsMessage(last', "join_game") /\ ~last'.data.success)
            => /\ UNCHANGED <<players, avatars, myPlayerId, myPlayer, myPlayerShared,
                              viewportX, viewportY, needsRedraw>>
               /\ sent' = <<>>
               /\ ~threw'
       /\ (\E i \in DOMAIN sent' : sent'[i].action = "join_game")
            => last'.kind = "open"
      ]_vars

\* a rejection has been handled on a connection that had joined p1 before, after
\* a tick cleared the dirty flag: the store and the clear flag stay
C12_Witness ==
    /\ IsMessage(last, "join_game")
    /\ ~last.data.success
    /\ connected
    /\ DOMAIN players = {"p1"}
    /\ myPlayerId = "p1"
    /\ ~needsRedraw

\* an entity of the store differs from what it was in its facing at most
SameButFacing(p, q) == [p EXCEPT !.facing = q.facing] = q

\* C13 as stated: a closed socket leads to a new connection attempt, one per
\* close; the callback that opens a connection sends exactly one join; and
\* while the connection is not established the store stays as it is.
C13_ReconnectsStoreUntouched ==
    /\ (ws = "closed") ~> (ws = "connecting")
    /\ [][/\ last'.kind = "close" => (~reconnectTimer /\ reconnectTimer')
          /\ last'.kind = "reconnect" => (reconnectTimer /\ ~reconnectTimer')
          /\ last'.kind = "open" => sent' = <<Join>>
          /\ ~connected => players' = players
         ]_vars

\* C13 as amended: a closed socket leads to a new connection attempt, one per
\* close; the callback that opens a connection sends exactly one join; the
\* close and the reconnect leave the store as it is, and while the connection
\* is not established no entity is added, removed or moved: an entity changes
\* in its facing at most (the prediction of a key press).
C13_ReconnectsStoreKept ==
    /\ (ws = "closed") ~> (ws = "connecting")
    /\ [][/\ last'.kind = "close" => (~reconnectTimer /\ reconnectTimer')
          /\ last'.kind = "reconnect" => (reconnectTimer /\ ~reconnectTimer')
          /\ last'.kind = "open" => sent' = <<Join>>
          /\ last'.kind \in {"close", "reconnect"} => players' = players
          /\ ~connected
               => /\ DOMAIN players' = DOMAIN players
                  /\ \A id \in DOMAIN players : SameButFacing(players'[id], players[id])
         ]_vars

\* a connection has opened again with p1 still in the store from the session
\* before, its facing predicted north by a key pressed during the outage: one
\* join is sent
C13_Witness ==
    /\ last.kind = "open"
    /\ sent = <<Join>>
    /\ DOMAIN players = {"p1"}
    /\ players["p1"].facing = "north"
    /\ pressedKeys = {"ArrowUp"}

\* C14: once player_left has removed the tracked entity, and for as long as the
\* tracked id stays absent from the store, no callback but a successful join
\* changes the viewport: not a key press or release, not a resize, not a
\* players_moved message.
C14_NoCameraTargetAfterRemoval ==
    [][(/\ myPlayerId # NullId
        /\ myPlayerId \notin DOMAIN players
        /\ ~(IsMessage(last', "join_game") /\ last'.data.success))
        => /\ viewportX' = viewportX
           /\ viewportY' = viewportY
      ]_vars

\* the sprite of the entity's (kind, facing, frame 0) can be drawn
SpriteAvailable(player) ==
    /\ player.avatar \in DOMAIN avatars
    /\ ImageKey(player.avatar, player.facing, 0) \in DOMAIN avatarImages

\* C15: in the redraw of a tick, an entity that passes the visibility check and
\* whose sprite is not available gets neither sprite nor name label.  (The tick
\* changes nothing the drawing reads, so the state after it is the one drawn.)
C15_NoLabelWithoutSprite ==
    (last.kind = "tick" /\ rendered = 1)
    => \A id \in DOMAIN players :
          (~Culled(players[id]) /\ ~SpriteAvailable(players[id]))
          => DrawPlayers[id] \cap {"sprite", "label"} = {}

\* C16: a key of the sprite cache that maps to a loaded image maps to that
\* same image in every later state.
C16_CacheMonotonic ==
    [][\A key \in DOMAIN avatarImages :
          /\ key \in DOMAIN avatarImages'
          /\ avatarImages'[key] = avatarImages[key]
      ]_vars

\* C17: handling a player_joined message whose descriptor names a kind that is
\* in the descriptor map already leaves the descriptor stored for that kind as
\* it was; a descriptor of a new kind is added.
C17_DescriptorImmutable ==
    [][(IsMessage(last', "player_joined") /\ "avatar" \in DOMAIN last'.data)
        => LET incoming == last'.data.avatar
           IN  /\ incoming.name \in DOMAIN avatars'
               /\ avatars'[incoming.name] =
                      IF incoming.name \in DOMAIN avatars THEN avatars[incoming.name]
                      ELSE incoming
      ]_vars

\* C18: every callback that changes the connected flag (the socket opening or
\* closing) sets the dirty flag, so that the next tick redraws the indicator.
C18_IndicatorNeverStale ==
    [][connected' # connected => needsRedraw']_vars

\* C19: every image stored in the sprite cache is followed by a tick that
\* redraws (the dirty flag is set when the image is stored, or later), whatever
\* becomes of the other images of its descriptor.
C19_LoadedImageRedrawn ==
    (last.kind = "image") ~> (last.kind = "tick" /\ rendered = 1)

\* C20: a keydown or keyup of a key that is none of the four arrows, the
\* modifier included, leaves the held arrows as they were and sends neither
\* move nor stop; and the keydown of the modifier flips isRunning and changes
\* nothing else of the client.
C20_OnlyArrowsDriveIntents ==
    [][(last'.kind \in {"keydown", "keyup"} /\ last'.code \notin ArrowKeys)
        => /\ pressedKeys' \cap ArrowKeys = pressedKeys \cap ArrowKeys
           /\ sent' = <<>>
           /\ (last'.kind = "keydown" /\ last'.code \in ShiftKeys)
                => /\ isRunning' = ~isRunning
                   /\ UNCHANGED <<ws, connected, myPlayerId, myPlayer, players,
                                  avatars, avatarImages, viewportX, viewportY,
                                  needsRedraw, pressedKeys, isMoving>>
      ]_vars

====
